---- MODULE Spec2Model ----
(***************************************************************************)
(* State-machine model of sciconet's training harness                      *)
(* (src/sciconet/model.py): Model.compile, Model.train with its two        *)
(* strategies train_sgd / train_scipy, Model.test, TrainState and          *)
(* LossHistory.                                                            *)
(*                                                                         *)
(* External collaborators (the data provider, the TensorFlow session, the  *)
(* callbacks) are the environment: what they return is drawn from small    *)
(* sets, and each of their calls may raise.  A Python value that may be    *)
(* None is a sequence: <<>> is None and <<v>> is the value v.  Arrays and  *)
(* tensors are symbolic values.                                            *)
(***************************************************************************)
EXTENDS Integers, Sequences, FiniteSets, TLC

(* ------------------------------ bounds -------------------------------- *)

\* Largest epochs argument of one train call, and cap on TrainState.epoch.
MaxEpochs == 3
\* Largest validation_every argument.
MaxValidationEvery == 3
\* Number of train calls made on the Model.
MaxTrains == 2
\* the number of calls of initializers.get
MaxLookups == 4

\* The values the network's trainable variables may take in a session: what
\* an initialization or an optimizer update leaves them at.  What a forward
\* pass returns is a function of them and of the data.
Weights == {"wA", "wB"}

\* Python's None, and a value that is not None.
None == <<>>
Some(v) == <<v>>
Val(o) == o[1]

(* --------------------------- program constants ------------------------ *)

\* Model.scipy_opts
scipy_opts == {"BFGS", "L-BFGS-B", "Nelder-Mead", "Powell", "CG", "Newton-CG"}

\* The keys of the dictionary of Model.get_optimizer.
sgd_opts == {"sgd", "sgdnesterov", "adagrad", "adadelta", "rmsprop", "adam"}

\* The keys of the dictionary of Model.get_learningrate.
decay_kinds == {"inverse time", "cosine"}

\* The names metrics_module.get knows.
metric_names == {"accuracy", "l2 relative error"}

\* np.inf, the initial best_loss_train / best_loss_test: above every sum of
\* an evaluated loss vector.
Inf == 1000000

\* The number of dropout passes of an evaluation with uncertainty.
NSamples == 1000

(* ------------------------------- state -------------------------------- *)

VARIABLES
  net,            \* the network definition given to Model.__init__ (immutable)
  optimizer,      \* Model.optimizer
  batch_size,     \* Model.batch_size
  ntest,          \* Model.ntest
  losses,         \* Model.losses
  totalloss,      \* Model.totalloss
  train_op,       \* Model.train_op
  metrics,        \* Model.metrics
  sess,           \* Model.sess: None or the id of the tf.Session it holds
  open_sessions,  \* the ids of the tf.Sessions that are open
  train_state,    \* the Model's TrainState
  losshistory,    \* the Model's LossHistory
  weights,        \* the trainable variables of the session of self.sess, once an
                  \* evaluation has read them (None: not read since they last changed)
  call,           \* the Model method running, or the last one run, with its arguments
  pc,             \* position inside Model.train ("idle": no method is running)
  i,              \* the loop variable of train_sgd
  evals,          \* np.sum(loss_train) of every evaluation made on train_state
  ntrain,         \* number of train calls so far
  raised,         \* a train call has ended in an exception
  lookup,         \* the last call of initializers.get, and how many there were
  trace           \* what the running train call has done so far, in order

model_vars == <<optimizer, batch_size, ntest, losses, totalloss, train_op, metrics>>

vars == <<net, optimizer, batch_size, ntest, losses, totalloss, train_op, metrics,
          sess, open_sessions, weights, train_state, losshistory, call, pc, i,
          evals, ntrain, raised, lookup, trace>>

(* ------------------------------ helpers ------------------------------- *)

RECURSIVE Sum(_)
\* np.sum of a loss vector
Sum(v) == IF Len(v) = 0 THEN 0 ELSE Head(v) + Sum(Tail(v))

RECURSIVE SeqMin(_)
\* the minimum of a non-empty sequence of numbers, Inf for the empty one
SeqMin(s) ==
  IF Len(s) = 0 THEN Inf
  ELSE LET m == SeqMin(Tail(s)) IN IF Head(s) < m THEN Head(s) ELSE m

\* isinstance(self.net.targets, list)
IsList(targets) == targets.list

(* --------------------------- construction ----------------------------- *)

\* TrainState.__init__
TrainState0 ==
  [epoch |-> 0, step |-> 0, sess |-> None,
   X_train |-> None, y_train |-> None, X_test |-> None, y_test |-> None,
   y_pred_train |-> None, loss_train |-> None, loss_test |-> None,
   y_pred_test |-> None, y_std_test |-> None, metrics_test |-> None,
   best_loss_train |-> Inf, best_loss_test |-> Inf,
   best_y |-> None, best_ystd |-> None, best_metrics |-> None]

\* LossHistory.__init__
LossHistory0 ==
  [steps |-> <<>>, loss_train |-> <<>>, loss_test |-> <<>>, metrics_test |-> <<>>,
   loss_weights |-> "1"]

\* No method has been called yet.
NoCall == [op |-> "none", status |-> "none"]

\* Model.train has ended: its arguments and locals are gone
Ended(status) == [op |-> "train", status |-> status]

\* The network definitions a Model is built on: one target or a list of
\* targets, with or without a regularizer.
Nets ==
  {[targets |-> [list |-> FALSE, names |-> <<"t">>], regularizer |-> None],
   [targets |-> [list |-> TRUE, names |-> <<"t1", "t2", "t3">>], regularizer |-> Some("l2")]}

\* No call of initializers.get yet.
NoLookup == [n |-> 0]

\* Model.__init__
Init ==
  /\ lookup = NoLookup
  /\ trace = <<>>
  /\ net \in Nets
  /\ optimizer = None
  /\ batch_size = None /\ ntest = None
  /\ losses = None /\ totalloss = None
  /\ train_op = None
  /\ metrics = None
  /\ sess = None
  /\ open_sessions = {}
  /\ train_state = TrainState0
  /\ losshistory = LossHistory0
  /\ weights = None
  /\ call = NoCall
  /\ pc = "idle"
  /\ i = 0
  /\ evals = <<>>
  /\ ntrain = 0
  /\ raised = FALSE

(* --------------------------- initializers.get ------------------------- *)

\* the keys of the dictionary of get
InitializerNames ==
  {"zeros", "He normal", "He uniform", "LeCun normal", "LeCun uniform",
   "Glorot normal", "Glorot uniform", "Orthogonal"}

\* the tf constructor call that builds the value of a key, arguments not
\* given being "default"
Constructor ==
  [n \in InitializerNames |->
     CASE n = "zeros" ->
            [ctor |-> "tf.zeros_initializer", scale |-> "default", distribution |-> "default"]
       [] n = "He normal" ->
            [ctor |-> "tf.variance_scaling_initializer", scale |-> "2.0",
             distribution |-> "default"]
       [] n = "He uniform" ->
            [ctor |-> "tf.variance_scaling_initializer", scale |-> "2.0",
             distribution |-> "uniform"]
       [] n = "LeCun normal" ->
            [ctor |-> "tf.variance_scaling_initializer", scale |-> "default",
             distribution |-> "default"]
       [] n = "LeCun uniform" ->
            [ctor |-> "tf.variance_scaling_initializer", scale |-> "default",
             distribution |-> "uniform"]
       [] n = "Glorot normal" ->
            [ctor |-> "tf.glorot_normal_initializer", scale |-> "default",
             distribution |-> "default"]
       [] n = "Glorot uniform" ->
            [ctor |-> "tf.glorot_uniform_initializer", scale |-> "default",
             distribution |-> "default"]
       [] n = "Orthogonal" ->
            [ctor |-> "tf.orthogonal_initializer", scale |-> "default",
             distribution |-> "default"]]

\* get: the dictionary identifiers, built anew by the call number c
identifiers(c) ==
  [n \in InitializerNames |->
     [ctor |-> Constructor[n].ctor, scale |-> Constructor[n].scale,
      distribution |-> Constructor[n].distribution, built_by_call |-> c]]

\* the outcomes of a call
Returned(v) == [status |-> "returned", result |-> Some(v)]
Raised(error) == [status |-> error, result |-> None]

\* (mutant) the dictionary read with a default for a missing key
GetItem_Default(table, key) ==
  IF key \in DOMAIN table THEN Returned(table[key]) ELSE Returned(table["zeros"])

\* identifiers[identifier]: the value of the key, KeyError for a missing key
GetItem(table, key) ==
  IF key \in DOMAIN table THEN Returned(table[key]) ELSE Raised("KeyError")

\* isinstance(identifier, str) and callable(identifier)
IsStr(identifier) == identifier.type = "str"
IsCallable(identifier) == identifier.type = "callable"

\* get(identifier), as the call number c
get(identifier, c) ==
  IF IsStr(identifier) THEN GetItem(identifiers(c), identifier.value)
  ELSE IF IsCallable(identifier) THEN Returned(identifier)
  ELSE Raised("ValueError")

\* The identifiers get is called with: the eight names, strings that are no
\* key (wrong case, trailing blank, empty, a partial name), callables (a user
\* function, a lambda, an initializer object), and values that are neither
\* (None, numbers, a list, a non-str text value).
Identifiers ==
  [type : {"str"},
   value : InitializerNames \cup {"", "Zeros", "zeros ", "he normal", "Glorot", "normal"}]
  \cup [type : {"callable"}, value : {"my_init", "lambda", "tf.zeros_initializer()"}]
  \cup [type : {"other"}, value : {"None", "0", "3.5", "['zeros']", "u'zeros'"}]

\* one call of initializers.get
Get(identifier) ==
  /\ lookup.n < MaxLookups
  /\ LET out == get(identifier, lookup.n + 1)
     IN lookup' = [n |-> lookup.n + 1, identifier |-> identifier,
                   status |-> out.status, result |-> out.result]
  /\ UNCHANGED <<trace, net, model_vars, sess, open_sessions, weights, train_state,
                 losshistory, call, pc, i, evals, ntrain, raised>>

(* ------------------------------- compile ------------------------------ *)

\* self.data.losses(self.net.targets, self.net.outputs, loss, self): the data
\* provider's loss tensors for the loss kind
data_losses(loss) == <<loss>>

\* Model.compile, the loss vector: the provider's losses, the regularization
\* loss when the network declares a regularizer, scaled by loss_weights when
\* they are given
LossTensor(loss, loss_weights) ==
  [terms |-> IF net.regularizer # None
             THEN Append(data_losses(loss), "regularization_loss")
             ELSE data_losses(loss),
   weights |-> loss_weights]

\* tf.reduce_sum(self.losses)
ReduceSum(l) == [op |-> "reduce_sum", of |-> l]

\* Model.compile, what LossHistory.loss_weights is after the loss vector is
\* built: update_loss_weights is called only when loss_weights is given
CompiledLossWeights(old, loss_weights) ==
  IF loss_weights # None THEN Val(loss_weights) ELSE old

\* Model.get_learningrate raises KeyError: decay names no known schedule
DecayUnknown(decay) == decay # None /\ Val(decay) \notin decay_kinds

\* Model.get_learningrate: the learning rate and the global step (the
\* tf.Variable created for the schedule)
get_learningrate(lr, decay) ==
  IF decay = None
  THEN [lr |-> [base |-> lr, schedule |-> None], global_step |-> None]
  ELSE [lr |-> [base |-> lr, schedule |-> decay],
        global_step |-> Some("tf.Variable(0)")]

\* Model.get_optimizer raises KeyError: name is no key of its dictionary
OptimizerUnknown(name) == name \notin sgd_opts

\* Model.get_optimizer: the optimizer of that name (adagrad and adadelta do
\* not take the learning rate)
get_optimizer(name, lr) ==
  [name |-> name,
   lr |-> IF name = "adagrad" THEN Some([base |-> "0.01", schedule |-> None])
          ELSE IF name = "adadelta" THEN None
          ELSE Some(lr)]

\* Model.compile, the training operation
TrainOp(opt, lrgs, total) ==
  IF opt \in scipy_opts
  THEN [kind |-> "ScipyOptimizerInterface", loss |-> total, method |-> opt]
  ELSE [kind |-> "minimize", loss |-> total,
        optimizer |-> get_optimizer(opt, lrgs.lr),
        global_step |-> lrgs.global_step]

\* metrics_module.get raises: the name is not registered
MetricUnknown(m) == m \notin metric_names

\* metrics_module.get(m): the metric function registered under the name
metrics_get(m) == [metric |-> m]

\* [metrics_module.get(m) for m in metrics]
MetricFunctions(names) == [k \in 1..Len(names) |-> metrics_get(names[k])]

\* [metrics_module.get(m) for m in metrics] raises: metrics is None (the
\* default) or holds an unknown name
MetricsRaise(mets) ==
  mets = None \/ \E k \in 1..Len(Val(mets)) : MetricUnknown(Val(mets)[k])

\* Model.compile, how far the call gets: the statement that raises, or "done"
CompileStage(opt, mets, decay) ==
  IF DecayUnknown(decay) THEN "learningrate"
  ELSE IF opt \notin scipy_opts /\ OptimizerUnknown(opt) THEN "optimizer"
  ELSE IF MetricsRaise(mets) THEN "metrics"
  ELSE "done"

\* the statements of Model.compile in order
StageOrder == <<"learningrate", "optimizer", "metrics", "done">>
StageIndex(st) == CHOOSE k \in 1..Len(StageOrder) : StageOrder[k] = st
\* the call got past the statement st
Past(stage, st) == StageIndex(stage) > StageIndex(st)

\* Model.compile
Compile(opt, lr, bs, nt, loss, mets, decay, loss_weights) ==
  /\ pc = "idle"
  /\ LET stage == CompileStage(opt, mets, decay)
         newlosses == LossTensor(loss, loss_weights)
         lrgs == get_learningrate(lr, decay)
     IN /\ optimizer' = Some(opt)
        /\ batch_size' = Some(bs)
        /\ ntest' = Some(nt)
        /\ losses' = Some(newlosses)
        /\ losshistory' =
             [losshistory EXCEPT !.loss_weights = CompiledLossWeights(@, loss_weights)]
        /\ totalloss' = Some(ReduceSum(newlosses))
        /\ train_op' = IF Past(stage, "optimizer")
                       THEN Some(TrainOp(opt, lrgs, ReduceSum(newlosses)))
                       ELSE train_op
        /\ metrics' = IF stage = "done" THEN Some(MetricFunctions(Val(mets)))
                      ELSE metrics
        /\ call' = [op |-> "compile",
                    status |-> IF stage = "done" THEN "returned" ELSE "raised",
                    stage |-> stage,
                    asked_losses |-> TRUE,
                    made_global_step |-> decay # None,
                    optimizer |-> opt, lr |-> lr, batch_size |-> bs, ntest |-> nt,
                    loss |-> loss, metrics |-> mets, decay |-> decay,
                    loss_weights |-> loss_weights]
  /\ UNCHANGED <<lookup, trace, net, sess, open_sessions, weights, train_state, pc, i, evals,
                 ntrain, raised>>

(* ------------------------------- train -------------------------------- *)

\* an entry of the trace: a hook fired, a draw from the data provider, an
\* optimizer run, update_best, a record added
Ev(name) == [ev |-> name]

\* Model.get_feed_dict: the flags and the inputs fed (the targets are fed
\* under the network's target placeholders)
get_feed_dict(training, dropout, data_id, inputs) ==
  [training |-> training, dropout |-> dropout, data_id |-> data_id, inputs |-> inputs]

\* Model.test, the feed of the pass on the training data
TrainFeed == get_feed_dict(FALSE, FALSE, 0, "X_train")

\* (mutant) the test passes without dropout whatever uncertainty is
TestFeed_NoDropout(uncertainty) == get_feed_dict(FALSE, FALSE, 1, "X_test")

\* Model.test, the feed of the pass(es) on the test data
TestFeed(uncertainty) ==
  IF uncertainty THEN get_feed_dict(FALSE, TRUE, 1, "X_test")
  ELSE get_feed_dict(FALSE, FALSE, 1, "X_test")

\* Model.test, the number of passes on the test data: for _ in range(1000)
\* under uncertainty, one otherwise
TestPasses(uncertainty) == IF uncertainty THEN NSamples ELSE 1

\* an entry of the trace: sess.run([self.losses, self.net.outputs], feed)
\* run that many times
Forward(feed, times) == [ev |-> "sess.run(losses, outputs)", feed |-> feed, times |-> times]

\* the arrays of one role ("y_train", "y_test", a prediction) for the
\* network's targets: one array, or a list with one array per target
Arrays(tag) ==
  IF IsList(net.targets)
  THEN [j \in 1..Len(net.targets.names) |-> [array |-> tag, output |-> j]]
  ELSE [array |-> tag, output |-> 0]

\* self.optimizer in Model.scipy_opts
IsScipy(opt) == opt # None /\ Val(opt) \in scipy_opts

\* (mutant) every train call starts on a newly constructed TrainState
EntryTrainState_Fresh(ts) == TrainState0

\* Model.train, the TrainState a call works on: self.train_state, the one
\* Model.__init__ constructed, as the calls before left it
EntryTrainState(ts) == ts

\* Model.train is called: "Training model...".  The caller does not catch an
\* exception of train: after a train call that raised, it calls train no more.
TrainCall(epochs, validation_every, uncertainty, errstop) ==
  /\ pc = "idle"
  /\ ntrain < MaxTrains
  /\ ~raised
  /\ train_state.epoch + epochs <= MaxEpochs
  /\ call' = [op |-> "train", status |-> "running",
              epochs |-> epochs, validation_every |-> validation_every,
              uncertainty |-> uncertainty, errstop |-> errstop,
              session |-> 0,
              epoch0 |-> train_state.epoch, step0 |-> train_state.step,
              records0 |-> Len(losshistory.steps)]
  /\ pc' = "open_tfsession"
  /\ i' = 0
  /\ ntrain' = ntrain + 1
  /\ train_state' = EntryTrainState(train_state)
  /\ trace' = <<>>
  /\ UNCHANGED <<lookup, net, model_vars, sess, open_sessions, losshistory, weights, evals,
                 raised>>

\* Model.open_tfsession: a new tf.Session, handed to the TrainState
open_tfsession ==
  /\ pc = "open_tfsession"
  /\ sess' = Some(ntrain)
  /\ open_sessions' = open_sessions \cup {ntrain}
  /\ train_state' = [train_state EXCEPT !.sess = Some(ntrain)]
  /\ call' = [call EXCEPT !.session = ntrain]
  /\ weights' = None
  /\ pc' = "initialize"
  /\ UNCHANGED <<lookup, trace, net, model_vars, losshistory, i, evals, ntrain, raised>>

\* (mutant) the stochastic strategy whatever the optimizer
Strategy_AlwaysSgd(opt) == "sgd_data_test"

\* Model.train, the strategy chosen after the variables are initialized
Strategy(opt) == IF IsScipy(opt) THEN "scipy_next_batch" ELSE "sgd_data_test"

\* self.sess.run(tf.global_variables_initializer()), then the dispatch on
\* the optimizer
initialize ==
  /\ pc = "initialize"
  /\ pc' = Strategy(optimizer)
  /\ UNCHANGED <<lookup, trace, net, model_vars, sess, open_sessions, weights, train_state,
                 losshistory, call, i, evals, ntrain, raised>>

\* Model.close_tfsession, then Model.train returns
close_tfsession ==
  /\ pc = "close_tfsession"
  /\ open_sessions' = open_sessions \ {Val(sess)}
  /\ weights' = None
  /\ call' = Ended("returned")
  /\ i' = 0
  /\ pc' = "idle"
  /\ trace' = <<>>
  /\ UNCHANGED <<lookup, net, model_vars, sess, train_state, losshistory, evals, ntrain, raised>>

(* ------------------------------ train_sgd ----------------------------- *)

\* train_sgd: self.train_state.update_data_test(*self.data.test(self.ntest))
sgd_data_test ==
  /\ pc = "sgd_data_test"
  /\ train_state' = [train_state EXCEPT !.X_test = Some("X_test"),
                                        !.y_test = Some(Arrays("y_test"))]
  /\ pc' = "on_train_begin"
  /\ trace' = Append(trace, Ev("data.test"))
  /\ UNCHANGED <<lookup, net, model_vars, sess, open_sessions, losshistory, weights, call,
                 i, evals, ntrain, raised>>

\* for i in range(epochs): where control goes with the loop variable at k
LoopHead(k, epochs) == IF k < epochs THEN "on_epoch_begin" ELSE "on_train_end"

\* callbacks.on_train_begin(self.train_state), then the loop is entered
on_train_begin ==
  /\ pc = "on_train_begin"
  /\ i' = 0
  /\ pc' = LoopHead(0, call.epochs)
  /\ trace' = Append(trace, Ev("on_train_begin"))
  /\ UNCHANGED <<lookup, net, model_vars, sess, open_sessions, train_state, losshistory,
                 weights, call, evals, ntrain, raised>>

\* (mutant) on_batch_begin left out
HookNext_NoBatchBegin ==
  [on_epoch_begin |-> "train_next_batch",
   on_batch_begin |-> "train_next_batch",
   on_batch_end |-> "on_epoch_end",
   on_train_end |-> "close_tfsession"]

\* (mutant) no minibatch drawn in the epoch
HookNext_NoDraw ==
  [on_epoch_begin |-> "on_batch_begin",
   on_batch_begin |-> "run_train_op",
   on_batch_end |-> "on_epoch_end",
   on_train_end |-> "close_tfsession"]

\* the hooks that only pass control on: each is followed by the next statement
HookNext ==
  [on_epoch_begin |-> "on_batch_begin",
   on_batch_begin |-> "train_next_batch",
   on_batch_end |-> "on_epoch_end",
   on_train_end |-> "close_tfsession"]

\* callbacks.on_epoch_begin / on_batch_begin / on_batch_end / on_train_end
Hook(h) ==
  /\ pc = h
  /\ pc' = HookNext[h]
  /\ trace' = Append(trace, Ev(h))
  /\ UNCHANGED <<lookup, net, model_vars, sess, open_sessions, train_state, losshistory,
                 weights, call, i, evals, ntrain, raised>>

\* callbacks.on_epoch_end(self.train_state), the last statement of the loop
\* body: the loop variable advances
on_epoch_end ==
  /\ pc = "on_epoch_end"
  /\ i' = i + 1
  /\ pc' = LoopHead(i + 1, call.epochs)
  /\ trace' = Append(trace, Ev("on_epoch_end"))
  /\ UNCHANGED <<lookup, net, model_vars, sess, open_sessions, train_state, losshistory,
                 weights, call, evals, ntrain, raised>>

\* self.train_state.update_data_train(*self.data.train_next_batch(self.batch_size))
train_next_batch ==
  /\ pc \in {"train_next_batch", "scipy_next_batch"}
  /\ train_state' = [train_state EXCEPT !.X_train = Some("X_train"),
                                        !.y_train = Some(Arrays("y_train"))]
  /\ pc' = IF pc = "train_next_batch" THEN "run_train_op" ELSE "scipy_minimize"
  /\ trace' = Append(trace, Ev("data.train_next_batch"))
  /\ UNCHANGED <<lookup, net, model_vars, sess, open_sessions, losshistory, weights, call,
                 i, evals, ntrain, raised>>

\* self.sess.run(self.train_op, ...) can run: train_op is a graph operation
CanRunTrainOp(op) == op # None /\ Val(op).kind = "minimize"

\* train_sgd: one optimizer update, then epoch += 1 and step += 1
run_train_op ==
  /\ pc = "run_train_op"
  /\ CanRunTrainOp(train_op)
  /\ weights' = None
  /\ train_state' = [train_state EXCEPT !.epoch = @ + 1, !.step = @ + 1]
  /\ pc' = "validation"
  /\ trace' = Append(trace, Ev("sess.run(train_op)"))
  /\ UNCHANGED <<lookup, net, model_vars, sess, open_sessions, losshistory, call, i, evals,
                 ntrain, raised>>

\* (mutant) the cadence without the rule for the final epoch
IsValidationEpoch_NoFinal(k, validation_every, epochs) ==
  k % validation_every = 0

\* train_sgd: if i % validation_every == 0 or i + 1 == epochs
IsValidationEpoch(k, validation_every, epochs) ==
  k % validation_every = 0 \/ k + 1 = epochs

\* train_sgd, the validation cadence: evaluate and record, or go on
validation ==
  /\ pc = "validation"
  /\ pc' = IF IsValidationEpoch(i, call.validation_every, call.epochs)
           THEN "test_train_pass" ELSE "on_batch_end"
  /\ UNCHANGED <<lookup, trace, net, model_vars, sess, open_sessions, train_state, losshistory,
                 weights, call, i, evals, ntrain, raised>>

(* -------------------------------- test -------------------------------- *)

\* self.sess.run([self.losses, self.net.outputs], ...) can run: the loss
\* vector has been built
CanRunLosses(l) == l # None

\* the number of components of the evaluated loss vector
NumLosses(l) == Len(Val(l).terms)

\* the session's answer for one loss component on the training data and on
\* the test data, and for the regularization loss, with the variables at w
DataLoss ==
  [train |-> [wA |-> 2, wB |-> 1],
   test  |-> [wA |-> 1, wB |-> 3],
   reg   |-> [wA |-> 1, wB |-> 1]]

\* sess.run(self.losses, ...): the loss vector on the data of that id
\* ("train" or "test") with the variables at w
RunLosses(l, data, w) ==
  [k \in 1..NumLosses(l) |->
     IF Val(l).terms[k] = "regularization_loss" THEN DataLoss.reg[w]
     ELSE DataLoss[data][w]]

\* Model.test: the forward pass on the training data (dropout disabled),
\* which sets loss_train and y_pred_train
test_train_pass ==
  /\ pc = "test_train_pass"
  /\ CanRunLosses(losses)
  /\ \E w \in (IF weights = None THEN Weights ELSE {Val(weights)}) :
       /\ weights' = Some(w)
       /\ train_state' =
            [train_state EXCEPT
               !.loss_train = Some(RunLosses(losses, "train", w)),
               !.y_pred_train = Some(Arrays(<<"pred_train", w>>))]
  /\ pc' = "test_test_pass"
  /\ trace' = Append(trace, Forward(TrainFeed, 1))
  /\ UNCHANGED <<lookup, net, model_vars, sess, open_sessions, losshistory, call, i, evals,
                 ntrain, raised>>

\* (mutant) an evaluation without uncertainty clears y_std_test
StdAfterTest_Reset(old, uncertainty, w) ==
  IF uncertainty THEN Some(Arrays(<<"std", w>>)) ELSE None

\* Model.test with uncertainty: y_std_test is np.std of the sampled
\* predictions; without, it is left as it was
StdAfterTest(old, uncertainty, w) ==
  IF uncertainty THEN Some(Arrays(<<"std", w>>)) ELSE old

\* Model.test: y_pred_test is np.mean of the sampled predictions with
\* uncertainty, the prediction of the single pass without
PredAfterTest(uncertainty, w) ==
  IF uncertainty THEN Some(Arrays(<<"mean", w>>)) ELSE Some(Arrays(<<"pred_test", w>>))

\* Model.test: the forward pass(es) on the test data, NSamples of them with
\* dropout enabled under uncertainty and one with dropout disabled otherwise,
\* which set loss_test, y_pred_test and, under uncertainty, y_std_test
test_test_pass ==
  /\ pc = "test_test_pass"
  /\ train_state' =
       [train_state EXCEPT
          !.loss_test = Some(RunLosses(losses, "test", Val(weights))),
          !.y_pred_test = PredAfterTest(call.uncertainty, Val(weights)),
          !.y_std_test = StdAfterTest(@, call.uncertainty, Val(weights))]
  /\ pc' = "test_metrics"
  /\ trace' = Append(trace, Forward(TestFeed(call.uncertainty), TestPasses(call.uncertainty)))
  /\ UNCHANGED <<lookup, net, model_vars, sess, open_sessions, losshistory, weights, call,
                 i, evals, ntrain, raised>>

\* a metric function applied: m(y_true, y_pred)
Apply(m, y_true, y_pred) == [metric |-> m.metric, y_true |-> y_true, y_pred |-> y_pred]

\* Model.test, the inner loop of the comprehension for one metric m:
\* m(y_test[i], y_pred_test[i]) for i in range(k)
PerOutput(m, y_test, y_pred, k) ==
  [n \in 1..k |-> Apply(m, y_test[n], y_pred[n])]

RECURSIVE PerMetric(_, _, _, _)
\* the inner loop of the comprehension with the loops the other way round,
\* for output n: m(y_test[n], y_pred_test[n]) for m in self.metrics
PerMetric(ms, y_test, y_pred, n) ==
  IF Len(ms) = 0 THEN <<>>
  ELSE <<Apply(Head(ms), y_test[n], y_pred[n])>> \o PerMetric(Tail(ms), y_test, y_pred, n)

RECURSIVE OutputsOuter(_, _, _, _, _)
\* for i in range(k) for m in self.metrics, from output n on
OutputsOuter(ms, y_test, y_pred, k, n) ==
  IF n > k THEN <<>>
  ELSE PerMetric(ms, y_test, y_pred, n) \o OutputsOuter(ms, y_test, y_pred, k, n + 1)

\* (mutant) the comprehension with the outer loop over the outputs
MetricsOfList_OutputsOuter(ms, y_test, y_pred, k) ==
  OutputsOuter(ms, y_test, y_pred, k, 1)

RECURSIVE MetricsOfList(_, _, _, _)
\* Model.test, metrics_test for a list of k targets: the comprehension
\* [m(y_test[i], y_pred_test[i]) for m in self.metrics for i in range(k)],
\* outer loop over the metrics
MetricsOfList(ms, y_test, y_pred, k) ==
  IF Len(ms) = 0 THEN <<>>
  ELSE PerOutput(Head(ms), y_test, y_pred, k) \o MetricsOfList(Tail(ms), y_test, y_pred, k)

\* Model.test, metrics_test for one target: m(y_test, y_pred_test) for m in
\* self.metrics
MetricsOfOne(ms, y_test, y_pred) ==
  [n \in 1..Len(ms) |-> Apply(ms[n], y_test, y_pred)]

\* Model.test: metrics_test
MetricsTest(ms, y_test, y_pred) ==
  IF IsList(net.targets)
  THEN MetricsOfList(ms, y_test, y_pred, Len(net.targets.names))
  ELSE MetricsOfOne(ms, y_test, y_pred)

\* Model.test: the metrics of the test predictions
test_metrics ==
  /\ pc = "test_metrics"
  /\ metrics # None
  /\ train_state' =
       [train_state EXCEPT
          !.metrics_test = Some(MetricsTest(Val(metrics), Val(train_state.y_test),
                                            Val(train_state.y_pred_test)))]
  /\ pc' = "update_best"
  /\ UNCHANGED <<lookup, trace, net, model_vars, sess, open_sessions, losshistory, weights, call,
                 i, evals, ntrain, raised>>

\* (mutant) every evaluation becomes the best one
IsNewBest_Always(ts) == TRUE

\* (mutant) an evaluation that only equals the best one replaces it
IsNewBest_NotStrict(ts) == ts.best_loss_train >= Sum(Val(ts.loss_train))

\* TrainState.update_best: if self.best_loss_train > np.sum(self.loss_train)
IsNewBest(ts) == ts.best_loss_train > Sum(Val(ts.loss_train))

\* TrainState.update_best
UpdateBest(ts) ==
  IF IsNewBest(ts)
  THEN [ts EXCEPT !.best_loss_train = Sum(Val(ts.loss_train)),
                  !.best_loss_test = Sum(Val(ts.loss_test)),
                  !.best_y = ts.y_pred_test,
                  !.best_ystd = ts.y_std_test,
                  !.best_metrics = ts.metrics_test]
  ELSE ts

\* (mutant) the strategies go on without recording the evaluation
AfterTest_SkipAdd(opt) == IF IsScipy(opt) THEN "close_tfsession" ELSE "on_batch_end"

\* Model.train, the strategy running: where Model.test returns to
AfterTest(opt) == IF IsScipy(opt) THEN "scipy_add" ELSE "sgd_add"

\* Model.test: self.train_state.update_best(), the last statement of an
\* evaluation
update_best ==
  /\ pc = "update_best"
  /\ train_state' = UpdateBest(train_state)
  /\ evals' = Append(evals, Sum(Val(train_state.loss_train)))
  /\ pc' = AfterTest(optimizer)
  /\ trace' = Append(trace, Ev("update_best"))
  /\ UNCHANGED <<lookup, net, model_vars, sess, open_sessions, losshistory, weights, call,
                 i, ntrain, raised>>

(* ----------------------------- LossHistory ---------------------------- *)

\* (mutant) add forgets the metrics
Add_NoMetrics(h, step, loss_train, loss_test, metrics_test) ==
  [h EXCEPT !.steps = Append(@, step),
            !.loss_train = Append(@, loss_train),
            !.loss_test = Append(@, loss_test)]

\* LossHistory.add
Add(h, step, loss_train, loss_test, metrics_test) ==
  [h EXCEPT !.steps = Append(@, step),
            !.loss_train = Append(@, loss_train),
            !.loss_test = Append(@, loss_test),
            !.metrics_test = Append(@, metrics_test)]

\* (mutant) the epoch counter, already incremented, recorded as the step
SgdStep_Counter(k) == k + 1

\* train_sgd: the step value recorded for epoch k
SgdStep(k) == k

\* (mutant) the early stop switched on
Break_Enabled(errstop) == errstop # None

\* train_sgd after the record of an epoch: the early stop on errstop is
\* commented out, the loop is never left here
Break(errstop) == FALSE

\* train_sgd: self.losshistory.add(i, loss_train, loss_test, metrics_test)
sgd_add ==
  /\ pc = "sgd_add"
  /\ losshistory' = Add(losshistory, SgdStep(i), Val(train_state.loss_train),
                        Val(train_state.loss_test), Val(train_state.metrics_test))
  /\ pc' = IF Break(call.errstop) THEN "on_train_end" ELSE "on_batch_end"
  /\ trace' = Append(trace, Ev("losshistory.add"))
  /\ UNCHANGED <<lookup, net, model_vars, sess, open_sessions, train_state, weights, call,
                 i, evals, ntrain, raised>>

(* ----------------------------- train_scipy ---------------------------- *)

\* self.train_op.minimize(self.sess, ...) can run: train_op is a
\* ScipyOptimizerInterface
CanMinimize(op) == op # None /\ Val(op).kind = "ScipyOptimizerInterface"

\* train_scipy: the optimizer runs to convergence on the one batch
scipy_minimize ==
  /\ pc = "scipy_minimize"
  /\ CanMinimize(train_op)
  /\ weights' = None
  /\ pc' = "scipy_data_test"
  /\ trace' = Append(trace, Ev("train_op.minimize"))
  /\ UNCHANGED <<lookup, net, model_vars, sess, open_sessions, train_state, losshistory,
                 call, i, evals, ntrain, raised>>

\* train_scipy: self.train_state.update_data_test(*self.data.test(self.ntest))
scipy_data_test ==
  /\ pc = "scipy_data_test"
  /\ train_state' = [train_state EXCEPT !.X_test = Some("X_test"),
                                        !.y_test = Some(Arrays("y_test"))]
  /\ pc' = "test_train_pass"
  /\ trace' = Append(trace, Ev("data.test"))
  /\ UNCHANGED <<lookup, net, model_vars, sess, open_sessions, losshistory, weights, call,
                 i, evals, ntrain, raised>>

\* train_scipy: the nominal step value of its one record
ScipyStep == 1

\* train_scipy: self.losshistory.add(1, loss_train, loss_test, metrics_test)
scipy_add ==
  /\ pc = "scipy_add"
  /\ losshistory' = Add(losshistory, ScipyStep, Val(train_state.loss_train),
                        Val(train_state.loss_test), Val(train_state.metrics_test))
  /\ pc' = "close_tfsession"
  /\ trace' = Append(trace, Ev("losshistory.add"))
  /\ UNCHANGED <<lookup, net, model_vars, sess, open_sessions, train_state, weights, call,
                 i, evals, ntrain, raised>>

(* ------------------------------ exceptions ---------------------------- *)

\* the statements of Model.train that call a collaborator, which may raise
Collaborators ==
  {"open_tfsession", "initialize", "sgd_data_test", "on_train_begin",
   "on_epoch_begin", "on_batch_begin", "train_next_batch", "run_train_op",
   "test_train_pass", "test_test_pass", "test_metrics", "on_batch_end",
   "on_epoch_end", "on_train_end", "scipy_next_batch", "scipy_minimize",
   "scipy_data_test"}

\* the statement at pc raises whatever the collaborators do: it is given a
\* value of the Model that it cannot work on
MustRaise ==
  \/ pc = "run_train_op" /\ ~CanRunTrainOp(train_op)
  \/ pc = "scipy_minimize" /\ ~CanMinimize(train_op)
  \/ pc = "test_train_pass" /\ ~CanRunLosses(losses)
  \/ pc = "test_metrics" /\ metrics = None

\* Model.train when a statement raises: nothing catches the exception, so
\* the call ends there and the rest of train (close_tfsession, the return)
\* is not run; the sessions that are open stay open
Propagate(sessions) == sessions

\* (mutant) an exception leaving Model.train takes the records of the call
\* with it
Unwind_Rollback ==
  /\ open_sessions' = Propagate(open_sessions)
  /\ call' = Ended("raised")
  /\ weights' = None
  /\ i' = 0
  /\ pc' = "idle"
  /\ raised' = TRUE
  /\ trace' = <<>>
  /\ losshistory' =
       [losshistory EXCEPT !.steps = SubSeq(@, 1, call.records0),
                           !.loss_train = SubSeq(@, 1, call.records0),
                           !.loss_test = SubSeq(@, 1, call.records0),
                           !.metrics_test = SubSeq(@, 1, call.records0)]
  /\ UNCHANGED <<lookup, net, model_vars, sess, train_state, evals, ntrain>>

\* what an exception leaving Model.train does to the state (the variables of
\* the session it leaves behind are never read again: the next train call
\* opens a new session)
Unwind ==
  /\ open_sessions' = Propagate(open_sessions)
  /\ call' = Ended("raised")
  /\ weights' = None
  /\ i' = 0
  /\ pc' = "idle"
  /\ raised' = TRUE
  /\ trace' = <<>>
  /\ UNCHANGED <<lookup, net, model_vars, sess, train_state, losshistory, evals, ntrain>>

\* a statement of Model.train raises on its own
Raise ==
  /\ MustRaise
  /\ Unwind

\* a collaborator called by Model.train raises
Fault ==
  /\ pc \in Collaborators
  /\ ~MustRaise
  /\ Unwind

(* ---------------------------- specification --------------------------- *)

\* The compile calls of the life of a Model: a gradient-based optimizer, a
\* quasi-Newton one, an unknown optimizer name, and a call that leaves out
\* the metrics (metrics=None is the default).
CompileArgs ==
  {[optimizer |-> o, metrics |-> Some(<<"accuracy", "l2 relative error">>)] :
     o \in {"adam", "L-BFGS-B", "made-up"}}
  \cup {[optimizer |-> "adam", metrics |-> None]}

CompileCall ==
  \E a \in CompileArgs :
    Compile(a.optimizer, "lr", 16, 100, "MSE", a.metrics, None, None)

\* the train calls of the life of a Model, errstop left at its default
Train ==
  \E epochs \in 0..MaxEpochs, validation_every \in 1..MaxValidationEvery,
     uncertainty \in BOOLEAN :
    TrainCall(epochs, validation_every, uncertainty, None)

\* the statements of Model.train and of what it calls
Step ==
  \/ open_tfsession
  \/ initialize
  \/ sgd_data_test
  \/ on_train_begin
  \/ Hook("on_epoch_begin")
  \/ Hook("on_batch_begin")
  \/ train_next_batch
  \/ run_train_op
  \/ validation
  \/ test_train_pass
  \/ test_test_pass
  \/ test_metrics
  \/ update_best
  \/ sgd_add
  \/ Hook("on_batch_end")
  \/ on_epoch_end
  \/ Hook("on_train_end")
  \/ scipy_minimize
  \/ scipy_data_test
  \/ scipy_add
  \/ close_tfsession
  \/ Raise
  \/ Fault

Next ==
  \/ CompileCall
  \/ Train
  \/ Step

Spec == Init /\ [][Next]_vars

\* the errstop arguments of train: the default and thresholds
ErrStops == {None, Some("1e-3"), Some("0"), Some("1e9")}

\* The first train call of a Model, with every errstop.
TrainErrstop ==
  \E epochs \in 0..MaxEpochs, validation_every \in 1..MaxValidationEvery,
     uncertainty \in BOOLEAN, errstop \in ErrStops :
    /\ ntrain = 0
    /\ TrainCall(epochs, validation_every, uncertainty, errstop)

NextErrstop ==
  \/ CompileCall
  \/ TrainErrstop
  \/ Step

SpecErrstop == Init /\ [][NextErrstop]_vars

\* The compile calls alone, with every optimizer name, with and without
\* metrics, loss weights and a learning-rate schedule, of a known and of an
\* unknown kind.
MetricArgs == {None, Some(<<"accuracy">>)}
DecayArgs == {None, Some("cosine"), Some("exponential")}
LossWeightArgs == {None, Some("w1")}

CompileAny ==
  \E opt \in scipy_opts \cup sgd_opts \cup {"made-up"}, mets \in MetricArgs,
     decay \in DecayArgs, lw \in LossWeightArgs :
    Compile(opt, "lr", 16, 100, "MSE", mets, decay, lw)

SpecCompile == Init /\ [][CompileAny]_vars

\* The calls of initializers.get alone.
GetAny == \E identifier \in Identifiers : Get(identifier)

SpecGet == Init /\ [][GetAny]_vars

(* ------------------------------- claims ------------------------------- *)

\* Model.train is running
Running == call.op = "train" /\ call.status = "running"

\* train_sgd has run to its end and Model.train is about to close the session
SgdDone == Running /\ pc = "close_tfsession" /\ ~IsScipy(optimizer)

\* the statements of train_sgd
SgdPcs ==
  {"sgd_data_test", "on_train_begin", "on_epoch_begin", "on_batch_begin",
   "train_next_batch", "run_train_op", "validation", "sgd_add", "on_batch_end",
   "on_epoch_end", "on_train_end"}

\* the step values the running train call has appended to LossHistory.steps
Appended == SubSeq(losshistory.steps, call.records0 + 1, Len(losshistory.steps))

\* ceil(a / b)
CeilDiv(a, b) == (a + b - 1) \div b

\* C1: a stochastic-path train(epochs=E, validation_every=V) call with E >= 1
\* and V >= 1 appends exactly ceil(E / V) records, plus one when the final
\* epoch index E - 1 is not a multiple of V, and records the final epoch
\* exactly once (on a fresh Model these are all the records there are).
C1_RecordCount ==
  (SgdDone /\ call.epochs >= 1) =>
    /\ Len(Appended) =
         CeilDiv(call.epochs, call.validation_every)
         + (IF (call.epochs - 1) % call.validation_every # 0 THEN 1 ELSE 0)
    /\ Cardinality({j \in 1..Len(Appended) : Appended[j] = call.epochs - 1}) = 1
    /\ (ntrain = 1 => Len(losshistory.steps) = Len(Appended))

\* C1 witness: a train of 3 epochs validated every 3 has ended with the two
\* records of epochs 0 and 2, the second one due to the final-epoch rule.
C1_Witness ==
  /\ SgdDone /\ ntrain = 1
  /\ call.epochs = 3 /\ call.validation_every = 3
  /\ Len(losshistory.steps) = 2

\* C2: the steps a stochastic-path train call records are exactly the epoch
\* indices i in [0, E) with i mod V = 0 or i = E - 1, each once and in
\* strictly increasing order.
C2_RecordedSteps ==
  SgdDone =>
    /\ \A j \in 1..(Len(Appended) - 1) : Appended[j] < Appended[j + 1]
    /\ {Appended[j] : j \in 1..Len(Appended)} =
         {k \in 0..(call.epochs - 1) :
            k % call.validation_every = 0 \/ k = call.epochs - 1}

\* C2 witness: a train of 3 epochs validated every 2 has recorded steps 0, 2.
C2_Witness ==
  /\ SgdDone /\ ntrain = 1
  /\ call.epochs = 3 /\ call.validation_every = 2
  /\ losshistory.steps = <<0, 2>>

\* C3: with a quasi-Newton optimizer (one of Model.scipy_opts) a train call
\* never enters the stochastic loop, whatever epochs and validation_every
\* are, and by its end has appended exactly one record, of step value 1.
C3_ScipySingleShot ==
  (Running /\ IsScipy(optimizer)) =>
    /\ pc \notin SgdPcs
    /\ i = 0
    /\ train_state.epoch = call.epoch0 /\ train_state.step = call.step0
    /\ Appended = (IF pc = "close_tfsession" THEN <<1>> ELSE <<>>)

\* C3 witness: a train(epochs=3, validation_every=2) call on L-BFGS-B has
\* ended with its one record.
C3_Witness ==
  /\ Running /\ IsScipy(optimizer) /\ pc = "close_tfsession"
  /\ call.epochs = 3 /\ call.validation_every = 2
  /\ losshistory.steps = <<1>>

\* C4: best_loss_train never increases, and after every step (so after every
\* update_best) it is the minimum of the summed train loss of all evaluations
\* made so far on the TrainState, which is +infinity when there is none.
C4_BestIsMinimum ==
  [][/\ train_state'.best_loss_train <= train_state.best_loss_train
     /\ train_state'.best_loss_train = SeqMin(evals')]_vars

\* C4 witness: three evaluations with summed train loss 2, 1, 2: the best
\* went down once and then stayed.
C4_Witness ==
  /\ pc = "sgd_add"
  /\ evals = <<2, 1, 2>>
  /\ train_state.best_loss_train = 1

\* C5: an update_best call whose summed train loss is not strictly lower
\* than best_loss_train leaves the five best_* fields unchanged; one whose
\* summed train loss is strictly lower overwrites all five from the current
\* evaluation.
C5_BestFrame ==
  [][pc = "update_best" =>
       LET ts == train_state
           new == train_state'
       IN IF Sum(Val(ts.loss_train)) < ts.best_loss_train
          THEN /\ new.best_loss_train = Sum(Val(ts.loss_train))
               /\ new.best_loss_test = Sum(Val(ts.loss_test))
               /\ new.best_y = ts.y_pred_test
               /\ new.best_ystd = ts.y_std_test
               /\ new.best_metrics = ts.metrics_test
          ELSE /\ new.best_loss_train = ts.best_loss_train
               /\ new.best_loss_test = ts.best_loss_test
               /\ new.best_y = ts.best_y
               /\ new.best_ystd = ts.best_ystd
               /\ new.best_metrics = ts.best_metrics]_vars

\* C5 witness: update_best has just run on an evaluation whose summed train
\* loss only equals the best one while its predictions differ, and the best
\* predictions are not those of this evaluation.
C5_Witness ==
  /\ pc \in {"sgd_add", "scipy_add"}
  /\ Len(evals) >= 2
  /\ Sum(Val(train_state.loss_train)) = train_state.best_loss_train
  /\ train_state.best_y # train_state.y_pred_test

\* the four sequences of a LossHistory have the same length
EqualLengths(h) ==
  /\ Len(h.loss_train) = Len(h.steps)
  /\ Len(h.loss_test) = Len(h.steps)
  /\ Len(h.metrics_test) = Len(h.steps)

\* C6: between LossHistory operations the four sequences have equal length,
\* each add grows all four by exactly one, and no step of the Model (a
\* second compile or train call included) shortens or rewrites them.
C6_HistoryAppendOnly ==
  [][/\ EqualLengths(losshistory) /\ EqualLengths(losshistory')
     /\ Len(losshistory'.steps) >= Len(losshistory.steps)
     /\ SubSeq(losshistory'.steps, 1, Len(losshistory.steps)) = losshistory.steps
     /\ (pc \in {"sgd_add", "scipy_add"} =>
           /\ Len(losshistory'.steps) = Len(losshistory.steps) + 1
           /\ Len(losshistory'.loss_train) = Len(losshistory.loss_train) + 1
           /\ Len(losshistory'.loss_test) = Len(losshistory.loss_test) + 1
           /\ Len(losshistory'.metrics_test) = Len(losshistory.metrics_test) + 1)
     /\ (pc \notin {"sgd_add", "scipy_add"} => losshistory'.steps = losshistory.steps)]_vars

\* C6 witness: a second train call is adding records to those of the first,
\* after a compile call in between.
C6_Witness ==
  /\ ntrain = 2 /\ pc = "on_batch_end"
  /\ call.records0 >= 1
  /\ Len(losshistory.steps) >= call.records0 + 1

\* C7 (as claimed): whenever train has returned or raised, the session that
\* call opened is closed.
C7_SessionClosedOnExit ==
  (pc = "idle" /\ call.op = "train") => ntrain \notin open_sessions

\* C8 (as claimed): every train call starts from a fresh TrainState: epoch =
\* step = 0 and the best_* fields at their initial values.
C8_FreshPerTrain ==
  pc = "open_tfsession" =>
    /\ train_state.epoch = 0 /\ train_state.step = 0
    /\ train_state.best_loss_train = Inf /\ train_state.best_loss_test = Inf
    /\ train_state.best_y = None /\ train_state.best_ystd = None
    /\ train_state.best_metrics = None

\* C8 (amended): the TrainState is the one Model.__init__ constructed; the
\* first train call starts on it as constructed, a later call on it as the
\* calls before left it; epoch and step are always equal, and a stochastic
\* train of E epochs that runs to its end leaves both E above their values
\* at the start of the call.
C8_CountersAccumulate ==
  /\ train_state.epoch = train_state.step
  /\ (ntrain = 0 => train_state = TrainState0)
  /\ (pc = "open_tfsession" =>
        /\ train_state.epoch = call.epoch0 /\ train_state.step = call.step0
        /\ (ntrain = 1 => train_state = TrainState0))
  /\ (SgdDone =>
        /\ train_state.epoch = call.epoch0 + call.epochs
        /\ train_state.step = call.step0 + call.epochs)

\* C8 witness: a second stochastic train call has run its epochs on a
\* TrainState whose counters the first call had already advanced.
C8_Witness ==
  /\ SgdDone /\ ntrain = 2
  /\ call.epoch0 >= 1 /\ call.epochs >= 1
  /\ train_state.epoch = call.epoch0 + call.epochs

\* the names Model.compile can build an optimizer for
KnownOptimizers == scipy_opts \cup sgd_opts

\* C9 (as claimed): a compile call with an unknown optimizer name raises
\* before anything is built: no loss tensors have been asked of the data
\* provider, no global step has been created, and no field of the Model has
\* been changed (so Model.optimizer is not that name).
C9_FailsFast ==
  (call.op = "compile" /\ call.optimizer \notin KnownOptimizers) =>
    /\ call.status = "raised"
    /\ ~call.asked_losses
    /\ ~call.made_global_step
    /\ optimizer # Some(call.optimizer)

\* what one compile call with the arguments of c leaves on a Model fresh from
\* Model.__init__
FreshCompile(c) ==
  LET l == LossTensor(c.loss, c.loss_weights)
  IN [optimizer |-> Some(c.optimizer),
      batch_size |-> Some(c.batch_size),
      ntest |-> Some(c.ntest),
      losses |-> Some(l),
      totalloss |-> Some(ReduceSum(l)),
      train_op |-> Some(TrainOp(c.optimizer, get_learningrate(c.lr, c.decay),
                                ReduceSum(l))),
      metrics |-> Some(MetricFunctions(Val(c.metrics))),
      loss_weights |-> CompiledLossWeights(LossHistory0.loss_weights, c.loss_weights)]

\* C10 (as claimed): after a compile call that returns, whatever calls came
\* before it, the state compile sets is what that one call gives on a fresh
\* Model, the display weights of the LossHistory included.
C10_CompileReplaces ==
  (call.op = "compile" /\ call.status = "returned") =>
    [optimizer |-> optimizer, batch_size |-> batch_size, ntest |-> ntest,
     losses |-> losses, totalloss |-> totalloss, train_op |-> train_op,
     metrics |-> metrics, loss_weights |-> losshistory.loss_weights]
    = FreshCompile(call)

\* an evaluation has just computed metrics_test
MetricsDone == pc = "update_best"

\* C11: for a network with a list of k targets and m metrics, an evaluation
\* sets metrics_test to m*k entries, entry j*k + i (0-based) being metric j
\* applied to (y_test[i], y_pred_test[i]); for a single-target network it
\* sets m entries, entry j being metric j applied to (y_test, y_pred_test).
C11_MetricsOrder ==
  MetricsDone =>
    LET ms == Val(metrics)
        m == Len(ms)
        k == Len(net.targets.names)
        out == Val(train_state.metrics_test)
        y_test == Val(train_state.y_test)
        y_pred == Val(train_state.y_pred_test)
    IN IF IsList(net.targets)
       THEN /\ Len(out) = m * k
            /\ \A j \in 0..(m - 1), n \in 0..(k - 1) :
                 out[j * k + n + 1] =
                   [metric |-> ms[j + 1].metric, y_true |-> y_test[n + 1],
                    y_pred |-> y_pred[n + 1]]
       ELSE /\ Len(out) = m
            /\ \A j \in 0..(m - 1) :
                 out[j + 1] =
                   [metric |-> ms[j + 1].metric, y_true |-> y_test, y_pred |-> y_pred]

\* C11 witness: an evaluation of a network with three targets under two
\* metrics has set six entries, the fourth being the second metric on the
\* first output.
C11_Witness ==
  /\ MetricsDone /\ IsList(net.targets)
  /\ Len(net.targets.names) = 3 /\ Len(Val(metrics)) = 2
  /\ Len(Val(train_state.metrics_test)) = 6
  /\ Val(train_state.metrics_test)[4].metric = "l2 relative error"
  /\ Val(train_state.metrics_test)[4].y_true.output = 1

\* a compile call has completed successfully on the Model: self.metrics, the
\* last thing compile sets, is set
Compiled == metrics # None

\* the statements of train_scipy and of Model.test
ScipyPcs == {"scipy_next_batch", "scipy_minimize", "scipy_data_test", "scipy_add"}
TestPcs == {"test_train_pass", "test_test_pass", "test_metrics", "update_best"}

\* C13 (as claimed): on a Model on which no compile call has completed
\* successfully a train call enters no training strategy, executes no
\* optimizer update, appends no LossHistory record, and leaves no session
\* open when it ends.
C13_TrainRequiresCompile ==
  ~Compiled =>
    /\ pc \notin SgdPcs \cup ScipyPcs \cup TestPcs
    /\ train_state.epoch = 0
    /\ Len(losshistory.steps) = 0
    /\ (pc = "idle" => open_sessions = {})

\* C12: get(identifier) returns the registered initializer for each of the
\* eight known names, returns a callable identifier itself, and ends in an
\* error, with no initializer returned, for a string that is no known name
\* and for an identifier that is neither a string nor callable.
C12_RegistryLookup ==
  lookup.n >= 1 =>
    LET id == lookup.identifier
        known == {"zeros", "He normal", "He uniform", "LeCun normal",
                  "LeCun uniform", "Glorot normal", "Glorot uniform", "Orthogonal"}
    IN /\ Cardinality(DOMAIN identifiers(lookup.n)) = 8
       /\ (id.type = "str" /\ id.value \in known =>
             /\ lookup.status = "returned"
             /\ lookup.result = Some(identifiers(lookup.n)[id.value]))
       /\ (id.type = "callable" =>
             /\ lookup.status = "returned"
             /\ lookup.result = Some(id))
       /\ (id.type = "str" /\ id.value \notin known =>
             /\ lookup.status \notin {"returned", "none"}
             /\ lookup.result = None)
       /\ (id.type \notin {"str", "callable"} =>
             /\ lookup.status \notin {"returned", "none"}
             /\ lookup.result = None)

\* C12 witness: the third call of get was given a name in the wrong case and
\* ended in a KeyError.
C12_Witness ==
  /\ lookup.n = 3
  /\ lookup.identifier = [type |-> "str", value |-> "Zeros"]
  /\ lookup.status = "KeyError"

\* the names of the entries of a trace
Names(t) == [n \in 1..Len(t) |-> t[n].ev]

\* a is a prefix of b
IsPrefix(a, b) == Len(a) <= Len(b) /\ a = SubSeq(b, 1, Len(a))

\* how often the name e occurs in the sequence of names t
Count(t, e) == Cardinality({n \in 1..Len(t) : t[n] = e})

\* the stochastic path is running or has just ended
InSgd == Running /\ ~IsScipy(optimizer) /\ pc \in SgdPcs \cup TestPcs \cup {"close_tfsession"}

\* what one epoch does, by the order C14 states
EpochOrder(evaluated) ==
  <<"on_epoch_begin", "on_batch_begin", "data.train_next_batch", "sess.run(train_op)">>
  \o (IF evaluated
      THEN <<"sess.run(losses, outputs)", "sess.run(losses, outputs)", "update_best",
             "losshistory.add">>
      ELSE <<>>)
  \o <<"on_batch_end", "on_epoch_end">>

RECURSIVE EpochsOrder(_, _, _)
\* the epochs k, k + 1, ..., E - 1 one after the other
EpochsOrder(k, E, V) ==
  IF k >= E THEN <<>>
  ELSE EpochOrder(k % V = 0 \/ k = E - 1) \o EpochsOrder(k + 1, E, V)

\* a whole stochastic-path train call of E epochs
TrainOrder(E, V) ==
  <<"data.test", "on_train_begin">> \o EpochsOrder(0, E, V) \o <<"on_train_end">>

\* C14: in a stochastic-path train call of E epochs on_train_begin fires
\* once before the first epoch, each epoch fires on_epoch_begin,
\* on_batch_begin, then draws the batch, updates and (on a validation epoch)
\* evaluates and records, then fires on_batch_end and on_epoch_end, and
\* on_train_end fires once after the last epoch: at every moment what the
\* call has done is a prefix of that order, and at its end it is all of it,
\* with each per-epoch hook fired E times.
C14_HookOrder ==
  InSgd =>
    LET done == Names(trace)
        order == TrainOrder(call.epochs, call.validation_every)
    IN /\ IsPrefix(done, order)
       /\ (pc = "close_tfsession" =>
             /\ done = order
             /\ Count(done, "on_train_begin") = 1 /\ Count(done, "on_train_end") = 1
             /\ done[Len(done)] = "on_train_end"
             /\ \A h \in {"on_epoch_begin", "on_batch_begin", "on_batch_end",
                          "on_epoch_end"} : Count(done, h) = call.epochs)

\* C14 witness: a train call of 3 epochs validated every 2 has ended, its
\* hooks fired around two evaluated epochs and one that was not.
C14_Witness ==
  /\ SgdDone
  /\ call.epochs = 3 /\ call.validation_every = 2
  /\ Count(Names(trace), "on_batch_end") = 3
  /\ Count(Names(trace), "losshistory.add") = 2

\* C15: a stochastic-path train call of E epochs draws the test split once,
\* before the first epoch, and never again, and draws a training minibatch
\* E times, in each epoch after on_batch_begin and before the optimizer
\* update; the quasi-Newton path draws one minibatch and one test split.
C15_Draws ==
  LET done == Names(trace)
      draws == {n \in 1..Len(done) : done[n] = "data.train_next_batch"}
      splits == {n \in 1..Len(done) : done[n] = "data.test"}
  IN /\ (InSgd =>
           /\ Cardinality(splits) <= 1
           /\ \A n \in 1..Len(done) :
                done[n] = "on_epoch_begin" => \E m \in splits : m < n
           /\ \A n \in draws : done[n - 1] = "on_batch_begin"
           /\ \A n \in 1..Len(done) :
                done[n] = "sess.run(train_op)" => (n - 1) \in draws
           /\ Cardinality(draws) \in {train_state.epoch - call.epoch0,
                                       train_state.epoch - call.epoch0 + 1}
           /\ (pc = "close_tfsession" =>
                 /\ Cardinality(splits) = 1
                 /\ Cardinality(draws) = call.epochs))
     /\ (Running /\ IsScipy(optimizer) =>
           /\ Cardinality(splits) <= 1 /\ Cardinality(draws) <= 1
           /\ (pc = "close_tfsession" =>
                 Cardinality(splits) = 1 /\ Cardinality(draws) = 1))

\* C15 witness: a train call of 3 epochs has ended with three minibatches
\* and one test split drawn.
C15_Witness ==
  /\ SgdDone /\ call.epochs = 3
  /\ Count(Names(trace), "data.train_next_batch") = 3
  /\ Count(Names(trace), "data.test") = 1
  /\ train_state.X_test # None

\* an evaluation (Model.test) has just ended
EvaluationDone == Running /\ pc \in {"sgd_add", "scipy_add"}

\* C16: an evaluation makes one forward pass on the training data with
\* dropout off and data id 0, then on the test data with data id 1 one pass
\* with dropout off when uncertainty is False and 1000 passes with dropout
\* on when it is True, every pass with the training flag off, and ends with
\* update_best; outside an evaluation there are twice as many forward-pass
\* entries as update_best calls.
C16_ForwardPasses ==
  /\ (EvaluationDone =>
        LET n == Len(trace)
        IN /\ n >= 3
           /\ trace[n - 2] =
                [ev |-> "sess.run(losses, outputs)",
                 feed |-> [training |-> FALSE, dropout |-> FALSE, data_id |-> 0,
                           inputs |-> "X_train"],
                 times |-> 1]
           /\ trace[n - 1] =
                [ev |-> "sess.run(losses, outputs)",
                 feed |-> [training |-> FALSE, dropout |-> call.uncertainty,
                           data_id |-> 1, inputs |-> "X_test"],
                 times |-> IF call.uncertainty THEN 1000 ELSE 1]
           /\ trace[n] = [ev |-> "update_best"])
  /\ (Running /\ pc \notin TestPcs =>
        Count(Names(trace), "sess.run(losses, outputs)")
          = 2 * Count(Names(trace), "update_best"))

\* C16 witness: an evaluation with uncertainty has ended after 1000 passes on
\* the test data with dropout on.
C16_Witness ==
  /\ EvaluationDone /\ call.uncertainty
  /\ trace[Len(trace) - 1].times = 1000
  /\ trace[Len(trace) - 1].feed.dropout
  /\ train_state.y_std_test # None

\* C17: a stochastic-path train(epochs=E) call that runs to its end has made
\* E optimizer updates and raised epoch and step by E, by one per update,
\* and has recorded the epochs its cadence names, whatever errstop is.
C17_ErrstopInert ==
  InSgd =>
    LET updates == Count(Names(trace), "sess.run(train_op)")
    IN /\ train_state.epoch = call.epoch0 + updates
       /\ train_state.step = call.step0 + updates
       /\ updates <= call.epochs
       /\ (pc = "close_tfsession" =>
             /\ updates = call.epochs
             /\ {Appended[j] : j \in 1..Len(Appended)} =
                  {k \in 0..(call.epochs - 1) :
                     k % call.validation_every = 0 \/ k = call.epochs - 1})

\* C17 witness: a train call of 3 epochs with errstop=0 has ended after 3
\* updates.
C17_Witness ==
  /\ SgdDone
  /\ call.errstop = Some("0") /\ call.epochs = 3
  /\ train_state.epoch = 3
  /\ Count(Names(trace), "sess.run(train_op)") = 3

\* C18: when a train call raises, the LossHistory (the records appended
\* before the failure included, unchanged and in order) and the TrainState
\* (its counters and best_* values) are left as they were at the failure,
\* and the call leaves no return value.
C18_PartialHistoryKept ==
  [][(pc # "idle" /\ call'.status = "raised") =>
       /\ losshistory' = losshistory
       /\ train_state' = train_state
       /\ call' = [op |-> "train", status |-> "raised"]]_vars

\* C18 witness: a train call has raised in its third epoch; the records of
\* epochs 0 and 1 and the counters at 2 are still there.
C18_Witness ==
  /\ pc = "idle" /\ call.op = "train" /\ call.status = "raised"
  /\ ntrain = 1
  /\ losshistory.steps = <<0, 1>>
  /\ Len(losshistory.loss_train) = 2
  /\ train_state.epoch = 2 /\ train_state.step = 2
  /\ train_state.best_loss_train < Inf

\* np.sum of the loss_train of every record of the LossHistory
RecordSums(h) == [n \in 1..Len(h.loss_train) |-> Sum(h.loss_train[n])]

\* C19: except between an evaluation's update_best and the add that follows
\* it, so in particular right after every add of either training path,
\* best_loss_train is the minimum over all LossHistory records of the sum of
\* the record's loss_train.
C19_BestIsMinOfRecords ==
  pc \notin {"sgd_add", "scipy_add"} =>
    train_state.best_loss_train = SeqMin(RecordSums(losshistory))

\* C19 witness: a second train call has just added a record whose train
\* loss is above the best one, which an earlier record holds.
C19_Witness ==
  /\ Running /\ ntrain = 2
  /\ Len(trace) >= 1 /\ trace[Len(trace)] = [ev |-> "losshistory.add"]
  /\ Len(losshistory.steps) >= 2
  /\ Sum(losshistory.loss_train[Len(losshistory.loss_train)])
       > train_state.best_loss_train
  /\ \E n \in 1..Len(losshistory.loss_train) :
       Sum(losshistory.loss_train[n]) = train_state.best_loss_train

\* C20: y_std_test changes only in the test passes of an evaluation with
\* uncertainty=True; an evaluation with uncertainty=False leaves it as it
\* was, and when such an evaluation becomes the new best, best_ystd takes
\* the value y_std_test has kept from before.
C20_StdOnlyWithUncertainty ==
  [][/\ (train_state'.y_std_test # train_state.y_std_test =>
           pc = "test_test_pass" /\ call.uncertainty)
     /\ (pc = "update_best" /\ ~call.uncertainty
           /\ Sum(Val(train_state.loss_train)) < train_state.best_loss_train =>
           train_state'.best_ystd = train_state.y_std_test)]_vars

\* C20 witness: in a train call without uncertainty an evaluation has become
\* the new best, and best_ystd holds the standard deviation an earlier call
\* with uncertainty computed.
C20_Witness ==
  /\ EvaluationDone /\ ~call.uncertainty /\ ntrain = 2
  /\ Len(evals) >= 2 /\ evals[Len(evals)] < evals[Len(evals) - 1]
  /\ train_state.best_loss_train = evals[Len(evals)]
  /\ train_state.best_y = train_state.y_pred_test
  /\ train_state.y_std_test # None
  /\ train_state.best_ystd = train_state.y_std_test

====
